---- MODULE Spec2Model ----
(***************************************************************************)
(* A model of rust-ofd2img: the micro-language decoders of st_types.rs     *)
(* (STPos, STBox, STPath, STDeltas), the metadata flattening of ofd.rs     *)
(* (DocInfo::attributes, CustomDataList::to_map) and the container         *)
(* resolution chain OfdDoc::open.                                          *)
(*                                                                         *)
(* Strings are TLA+ strings (sequences of characters).  An f64 is modelled *)
(* by the exact decimal value of the numeral it was parsed from, a record  *)
(* [k, m, e] standing for m * 10^e when k = "fin", for +/- infinity when   *)
(* k = "inf" (sign in m) and for NaN when k = "nan"; finite values are     *)
(* kept normalised (m not divisible by 10, or m = e = 0), so that equal    *)
(* numbers are equal records.  Rounding to binary64 is not modelled.       *)
(***************************************************************************)
EXTENDS Integers, Sequences, FiniteSets, TLC

VARIABLES
    pc,        \* position of the running call: "idle", a step of open, "returned"
    call,      \* the function called
    arg,       \* the argument of the call (the input string, the DocInfo, the path)
    shape,     \* the structure the input string was rendered from
    ret,       \* the value returned by the call
    tokens,    \* STPath, STDeltas: the white-space separated parts of the input
    cursor,    \* STPath, STDeltas: how many tokens the iterator has yielded
    elements,  \* STPath: the local `elements`
    deltas,    \* STDeltas: the local `deltas`
    disk,      \* what the file system and the archive hold, for OfdDoc::open
    zip,       \* open: the archive handle (its entries), once opened
    content,   \* open: the local `content` buffer
    ofd_node,  \* open: the decoded manifest
    document,  \* open: the decoded document root
    log        \* open: the collaborator calls made so far, in order

vars == <<pc, call, arg, shape, ret, tokens, cursor, elements, deltas,
          disk, zip, content, ofd_node, document, log>>

parseVars == <<tokens, cursor, elements, deltas>>

None == [tag |-> "None"]
Some(x) == [tag |-> "Some", val |-> x]

Ok(x) == [tag |-> "Ok", val |-> x]
Err(e) == [tag |-> "Err", err |-> e]

(***************************************************************************)
(* Bounds of the model.                                                    *)
(***************************************************************************)
MaxPosTokens == 5
MaxGroups == 2
MaxItems == 2
MaxKeywords == 2
MaxCustom == 3

(***************************************************************************)
(* str::split_whitespace                                                   *)
(***************************************************************************)
WhiteSpace == {" ", "\t", "\n"}

RECURSIVE SplitFrom(_, _, _)
SplitFrom(s, i, cur) ==
    IF i > Len(s)
    THEN IF cur = "" THEN <<>> ELSE <<cur>>
    ELSE LET c == SubSeq(s, i, i) IN
         IF c \in WhiteSpace
         THEN IF cur = "" THEN SplitFrom(s, i + 1, "")
                          ELSE <<cur>> \o SplitFrom(s, i + 1, "")
         ELSE SplitFrom(s, i + 1, cur \o c)

\* s.split(' '): the pieces between single blanks, empty pieces included
RECURSIVE SplitBlankFrom(_, _, _)
SplitBlankFrom(s, i, cur) ==
    IF i > Len(s) THEN <<cur>>
    ELSE IF SubSeq(s, i, i) = " " THEN <<cur>> \o SplitBlankFrom(s, i + 1, "")
    ELSE SplitBlankFrom(s, i + 1, cur \o SubSeq(s, i, i))

split_blank(s) == SplitBlankFrom(s, 1, "")

split_whitespace(s) == SplitFrom(s, 1, "")

(***************************************************************************)
(* str::parse::<f64>                                                       *)
(***************************************************************************)
Digits == {"0", "1", "2", "3", "4", "5", "6", "7", "8", "9"}

DigitVal(c) ==
    CASE c = "0" -> 0 [] c = "1" -> 1 [] c = "2" -> 2 [] c = "3" -> 3
      [] c = "4" -> 4 [] c = "5" -> 5 [] c = "6" -> 6 [] c = "7" -> 7
      [] c = "8" -> 8 [] c = "9" -> 9

Fin(m, e) == [k |-> "fin", m |-> m, e |-> e]
Inf(sign) == [k |-> "inf", m |-> sign, e |-> 0]
NaN == [k |-> "nan", m |-> 0, e |-> 0]

\* m * 10^e with the trailing zeros of m moved into e
RECURSIVE Normalize(_, _)
Normalize(m, e) ==
    IF m = 0 THEN Fin(0, 0)
    ELSE IF m % 10 = 0 THEN Normalize(m \div 10, e + 1)
    ELSE Fin(m, e)

\* index after the longest run of digits of s that starts at i
RECURSIVE SpanDigits(_, _)
SpanDigits(s, i) ==
    IF i <= Len(s) /\ SubSeq(s, i, i) \in Digits THEN SpanDigits(s, i + 1) ELSE i

\* the number written by the digits s[i .. j-1], continuing from acc
RECURSIVE DigitsValue(_, _, _, _)
DigitsValue(s, i, j, acc) ==
    IF i >= j THEN acc
    ELSE DigitsValue(s, i + 1, j, 10 * acc + DigitVal(SubSeq(s, i, i)))

LowerChar(c) ==
    CASE c = "I" -> "i" [] c = "N" -> "n" [] c = "F" -> "f" [] c = "T" -> "t"
      [] c = "Y" -> "y" [] c = "A" -> "a" [] OTHER -> c

RECURSIVE ToLower(_)
ToLower(s) ==
    IF s = "" THEN "" ELSE LowerChar(SubSeq(s, 1, 1)) \o ToLower(SubSeq(s, 2, Len(s)))

\* the decimal numeral s[i .. Len(s)] (no sign): digits, optional point and
\* digits, optional exponent; at least one digit before the exponent
ParseDecimal(s, i, sign) ==
    LET j == SpanDigits(s, i)                         \* end of the integer digits
        hasPoint == j <= Len(s) /\ SubSeq(s, j, j) = "."
        f == IF hasPoint THEN j + 1 ELSE j            \* start of the fraction
        g == IF hasPoint THEN SpanDigits(s, f) ELSE j \* end of the fraction
        nInt == j - i
        nFrac == g - f
        mant == DigitsValue(s, f, g, DigitsValue(s, i, j, 0))
        hasExp == g <= Len(s) /\ SubSeq(s, g, g) \in {"e", "E"}
        es == g + 1
        eneg == hasExp /\ es <= Len(s) /\ SubSeq(s, es, es) = "-"
        epos == hasExp /\ es <= Len(s) /\ SubSeq(s, es, es) = "+"
        ed == IF eneg \/ epos THEN es + 1 ELSE es     \* start of the exponent digits
        ee == IF hasExp THEN SpanDigits(s, ed) ELSE g \* end of the numeral
        expo == IF hasExp THEN DigitsValue(s, ed, ee, 0) ELSE 0
        exp10 == (IF eneg THEN 0 - expo ELSE expo) - nFrac
    IN  IF /\ nInt + nFrac > 0
           /\ hasExp => ee > ed
           /\ ee = Len(s) + 1
        THEN Ok(Normalize(sign * mant, exp10))
        ELSE Err("ParseFloatError")

ParseF64(s) ==
    LET signed == s # "" /\ SubSeq(s, 1, 1) \in {"+", "-"}
        sign == IF signed /\ SubSeq(s, 1, 1) = "-" THEN 0 - 1 ELSE 1
        i == IF signed THEN 2 ELSE 1
        rest == ToLower(SubSeq(s, i, Len(s)))
        dec == ParseDecimal(s, i, sign)
    IN  IF dec.tag = "Ok" THEN dec
        ELSE IF rest \in {"inf", "infinity"} THEN Ok(Inf(sign))
        ELSE IF rest = "nan" THEN Ok(NaN)
        ELSE Err("ParseFloatError")

(***************************************************************************)
(* STPos::from_str and STBox::from_str                                     *)
(***************************************************************************)
STPos(x, y) == [x |-> x, y |-> y]
STBox(x, y, w, h) == [x |-> x, y |-> y, w |-> w, h |-> h]

STPos_from_str(s) ==
    LET parts == split_whitespace(s) IN
    IF Len(parts) # 2 THEN Err("InvalidFormat")
    ELSE LET x == ParseF64(parts[1])
             y == ParseF64(parts[2])
         IN  IF x.tag = "Err" THEN Err("ParseFloatError")
             ELSE IF y.tag = "Err" THEN Err("ParseFloatError")
             ELSE Ok(STPos(x.val, y.val))

STBox_from_str(s) ==
    LET parts == split_whitespace(s) IN
    IF Len(parts) # 4 THEN Err("InvalidFormat")
    ELSE LET x == ParseF64(parts[1])
             y == ParseF64(parts[2])
             w == ParseF64(parts[3])
             h == ParseF64(parts[4])
         IN  IF x.tag = "Err" THEN Err("ParseFloatError")
             ELSE IF y.tag = "Err" THEN Err("ParseFloatError")
             ELSE IF w.tag = "Err" THEN Err("ParseFloatError")
             ELSE IF h.tag = "Err" THEN Err("ParseFloatError")
             ELSE Ok(STBox(x.val, y.val, w.val, h.val))

(***************************************************************************)
(* STPath::from_str                                                        *)
(***************************************************************************)
StartAt(pos) == [op |-> "StartAt", pos |-> pos]
MoveTo(pos) == [op |-> "MoveTo", pos |-> pos]
LineTo(pos) == [op |-> "LineTo", pos |-> pos]
QuadraticBezierCurve(pos1, pos2) ==
    [op |-> "QuadraticBezierCurve", pos1 |-> pos1, pos2 |-> pos2]
CubicBezierCurve(pos1, pos2, pos3) ==
    [op |-> "CubicBezierCurve", pos1 |-> pos1, pos2 |-> pos2, pos3 |-> pos3]
EllipseArc(rx, ry, angle, large, sweep, pos) ==
    [op |-> "EllipseArc", rx |-> rx, ry |-> ry, angle |-> angle,
     large |-> large, sweep |-> sweep, pos |-> pos]
ClosePath == [op |-> "ClosePath"]
STPath(es) == [elements |-> es]

\* n times "tokens.next().ok_or(ParseSTError::InvalidFormat)?", the cursor
\* standing after token i: the n operand strings, in order
NextOperandsInterleaved(toks, i, n) ==
    IF i + n > Len(toks)
    THEN IF \E j \in (i + 1)..Len(toks) : ParseF64(toks[j]).tag = "Err"
         THEN Err("ParseFloatError")
         ELSE Err("InvalidFormat")
    ELSE Ok(SubSeq(toks, i + 1, i + n))

NextOperands(toks, i, n) ==
    IF i + n > Len(toks) THEN Err("InvalidFormat")
    ELSE Ok(SubSeq(toks, i + 1, i + n))

\* "x_str.parse().map_err(ParseSTError::ParseFloatError)?" on each operand
\* string, in order
ParseOperands(strs) ==
    LET ps == [j \in 1..Len(strs) |-> ParseF64(strs[j])] IN
    IF \E j \in 1..Len(strs) : ps[j].tag = "Err" THEN Err("ParseFloatError")
    ELSE Ok([j \in 1..Len(strs) |-> ps[j].val])

\* the operands of an arm: all strings are taken first, then parsed
Operands(toks, i, n) ==
    LET strs == NextOperands(toks, i, n) IN
    IF strs.tag = "Err" THEN strs ELSE ParseOperands(strs.val)

ArmQSwapped(v) == QuadraticBezierCurve(STPos(v[3], v[4]), STPos(v[1], v[2]))

ArmS(v) == StartAt(STPos(v[1], v[2]))
ArmM(v) == MoveTo(STPos(v[1], v[2]))
ArmL(v) == LineTo(STPos(v[1], v[2]))
ArmQ(v) == QuadraticBezierCurve(STPos(v[1], v[2]), STPos(v[3], v[4]))
ArmB(v) == CubicBezierCurve(STPos(v[1], v[2]), STPos(v[3], v[4]), STPos(v[5], v[6]))
ArmA(v) == EllipseArc(v[1], v[2], v[3], v[4], v[5], STPos(v[6], v[7]))

\* "?": the call returns the error; "Ok(..)": it returns the value
Return(r) ==
    /\ ret' = r
    /\ pc' = "returned"

\* the "while let Some(op) = tokens.next()" loop has yielded op
PathOp(op) ==
    /\ pc = "STPath::loop"
    /\ cursor < Len(tokens)
    /\ tokens[cursor + 1] = op

\* the rest of an arm with n operands v that pushes element el: the call
\* returns the error of a missing or non-numeric operand, or the loop goes on
PathArm(v, n, el) ==
    /\ IF v.tag = "Err"
       THEN Return(v) /\ UNCHANGED <<cursor, elements>>
       ELSE /\ elements' = Append(elements, el)
            /\ cursor' = cursor + 1 + n
            /\ UNCHANGED <<pc, ret>>
    /\ UNCHANGED <<call, arg, shape, tokens, deltas, disk, zip, content, ofd_node,
                   document, log>>

PathArmS ==
    PathOp("S") /\ \E v \in {Operands(tokens, cursor + 1, 2)} : PathArm(v, 2, ArmS(v.val))
PathArmM ==
    PathOp("M") /\ \E v \in {Operands(tokens, cursor + 1, 2)} : PathArm(v, 2, ArmM(v.val))
PathArmL ==
    PathOp("L") /\ \E v \in {Operands(tokens, cursor + 1, 2)} : PathArm(v, 2, ArmL(v.val))
PathArmQ ==
    PathOp("Q") /\ \E v \in {Operands(tokens, cursor + 1, 4)} : PathArm(v, 4, ArmQ(v.val))
PathArmB ==
    PathOp("B") /\ \E v \in {Operands(tokens, cursor + 1, 6)} : PathArm(v, 6, ArmB(v.val))
PathArmA ==
    PathOp("A") /\ \E v \in {Operands(tokens, cursor + 1, 7)} : PathArm(v, 7, ArmA(v.val))

\* "C" => elements.push(PathElement::ClosePath(ClosePath {}))
PathArmC ==
    /\ PathOp("C")
    /\ elements' = Append(elements, ClosePath)
    /\ cursor' = cursor + 1
    /\ UNCHANGED <<pc, call, arg, shape, ret, tokens, deltas, disk, zip, content,
                   ofd_node, document, log>>

\* _ => return Err(ParseSTError::InvalidFormat)
PathArmOther ==
    /\ pc = "STPath::loop"
    /\ cursor < Len(tokens)
    /\ tokens[cursor + 1] \notin {"S", "M", "L", "Q", "B", "A", "C"}
    /\ Return(Err("InvalidFormat"))
    /\ UNCHANGED <<call, arg, shape, tokens, cursor, elements, deltas, disk, zip,
                   content, ofd_node, document, log>>

\* tokens.next() is None: Ok(STPath { elements })
PathDone ==
    /\ pc = "STPath::loop"
    /\ cursor = Len(tokens)
    /\ Return(Ok(STPath(elements)))
    /\ UNCHANGED <<call, arg, shape, tokens, cursor, elements, deltas, disk, zip,
                   content, ofd_node, document, log>>

(***************************************************************************)
(* STDeltas::from_str                                                      *)
(***************************************************************************)
I32Max == 2147483647
I32Min == 0 - I32Max - 1

\* x * 10^k, saturating at the ends of the i32 range
RECURSIVE SatMulPow10(_, _)
SatMulPow10(x, k) ==
    IF k = 0 \/ x = 0 THEN x
    ELSE IF x > I32Max \div 10 THEN I32Max
    ELSE IF x < 0 - (I32Max \div 10) THEN I32Min
    ELSE SatMulPow10(10 * x, k - 1)

\* x / 10^k for x >= 0, the fraction dropped
RECURSIVE DivPow10(_, _)
DivPow10(x, k) == IF k = 0 \/ x = 0 THEN x ELSE DivPow10(x \div 10, k - 1)

F64RoundAsI32(v) ==
    IF v.k = "nan" THEN 0
    ELSE IF v.k = "inf" THEN (IF v.m > 0 THEN I32Max ELSE I32Min)
    ELSE IF v.e >= 0 THEN SatMulPow10(v.m, v.e)
    ELSE IF v.m >= 0 THEN DivPow10(v.m, 0 - v.e) + 1
    ELSE 0 - DivPow10(0 - v.m, 0 - v.e) - 1

\* "count as i32": the fraction is dropped (rounding toward zero), values
\* out of range saturate, NaN gives 0
F64AsI32(v) ==
    IF v.k = "nan" THEN 0
    ELSE IF v.k = "inf" THEN (IF v.m > 0 THEN I32Max ELSE I32Min)
    ELSE IF v.e >= 0 THEN SatMulPow10(v.m, v.e)
    ELSE IF v.m >= 0 THEN DivPow10(v.m, 0 - v.e)
    ELSE 0 - DivPow10(0 - v.m, 0 - v.e)

STDeltas(ds) == [deltas |-> ds]

\* "for _ in 0..n { deltas.push(delta); }"
PushTimes(ds, delta, n) ==
    ds \o [j \in 1..(IF n > 0 THEN n ELSE 0) |-> delta]

GroupOperandsPullFirst(toks, i) ==
    IF i + 2 > Len(toks) THEN Err("InvalidFormat")
    ELSE LET count == ParseF64(toks[i + 1])
             delta == ParseF64(toks[i + 2])
         IN  IF count.tag = "Err" \/ delta.tag = "Err" THEN Err("ParseFloatError")
             ELSE Ok([count |-> count.val, delta |-> delta.val])

\* the "g" arm up to its loop, the cursor standing after the "g" at i:
\* count_str is taken and parsed, then delta_str is taken and parsed
GroupOperands(toks, i) ==
    IF i + 1 > Len(toks) THEN Err("InvalidFormat")
    ELSE LET count == ParseF64(toks[i + 1]) IN
         IF count.tag = "Err" THEN Err("ParseFloatError")
         ELSE IF i + 2 > Len(toks) THEN Err("InvalidFormat")
         ELSE LET delta == ParseF64(toks[i + 2]) IN
              IF delta.tag = "Err" THEN Err("ParseFloatError")
              ELSE Ok([count |-> count.val, delta |-> delta.val])

\* "g" => { ...; for _ in 0..count as i32 { deltas.push(delta); } }
DeltasArmG ==
    /\ pc = "STDeltas::loop"
    /\ cursor < Len(tokens)
    /\ tokens[cursor + 1] = "g"
    /\ \E g \in {GroupOperands(tokens, cursor + 1)} :
         IF g.tag = "Err"
         THEN Return(g) /\ UNCHANGED <<cursor, deltas>>
         ELSE /\ deltas' = PushTimes(deltas, g.val.delta, F64AsI32(g.val.count))
              /\ cursor' = cursor + 3
              /\ UNCHANGED <<pc, ret>>
    /\ UNCHANGED <<call, arg, shape, tokens, elements, disk, zip, content, ofd_node,
                   document, log>>

\* _ => { let delta = item.parse()...?; deltas.push(delta); }
DeltasArmOther ==
    /\ pc = "STDeltas::loop"
    /\ cursor < Len(tokens)
    /\ tokens[cursor + 1] # "g"
    /\ \E delta \in {ParseF64(tokens[cursor + 1])} :
         IF delta.tag = "Err"
         THEN Return(Err("ParseFloatError")) /\ UNCHANGED <<cursor, deltas>>
         ELSE /\ deltas' = Append(deltas, delta.val)
              /\ cursor' = cursor + 1
              /\ UNCHANGED <<pc, ret>>
    /\ UNCHANGED <<call, arg, shape, tokens, elements, disk, zip, content, ofd_node,
                   document, log>>

\* tokens.next() is None: Ok(STDeltas { deltas })
DeltasDone ==
    /\ pc = "STDeltas::loop"
    /\ cursor = Len(tokens)
    /\ Return(Ok(STDeltas(deltas)))
    /\ UNCHANGED <<call, arg, shape, tokens, cursor, elements, deltas, disk, zip,
                   content, ofd_node, document, log>>

(***************************************************************************)
(* ofd.rs: DocInfo, KeywordList, CustomDataList                            *)
(***************************************************************************)
EmptyMap == [k \in {} |-> ""]

\* HashMap::insert: the value of an existing key is replaced
Insert(map, k, v) == [x \in DOMAIN map \cup {k} |-> IF x = k THEN v ELSE map[x]]

Keyword(value) == [value |-> value]
KeywordList(keyword) == [keyword |-> keyword]
CustomData(name, value) == [name |-> name, value |-> value]
CustomDataList(custom_data) == [custom_data |-> custom_data]

\* "#[derive(Default)]" of DocInfo
DefaultDocInfo ==
    [doc_id |-> "", title |-> "", author |-> "", subject |-> "",
     abstract_text |-> "", creation_date |-> "", mod_date |-> "",
     doc_usage |-> "", cover |-> "", keywords |-> None, creator |-> "",
     creator_version |-> "", custom_datas |-> None]

\* [String]::join
RECURSIVE JoinNoSeparator(_, _)
JoinNoSeparator(list, sep) ==
    IF list = <<>> THEN "" ELSE list[1] \o JoinNoSeparator(Tail(list), sep)

RECURSIVE Join(_, _)
Join(list, sep) ==
    IF list = <<>> THEN ""
    ELSE IF Len(list) = 1 THEN list[1]
    ELSE list[1] \o sep \o Join(Tail(list), sep)

KeywordList_to_list(self) == [i \in 1..Len(self.keyword) |-> self.keyword[i].value]

InsertIfNonEmpty(map, k, v) == IF v = "" THEN map ELSE Insert(map, k, v)

\* the map.insert of a scalar field in DocInfo::attributes
InsertField(map, k, v) == Insert(map, k, v)

DocInfo_attributes(self) ==
    LET m1 == InsertField(EmptyMap, "DocId", self.doc_id)
        m2 == InsertField(m1, "Title", self.title)
        m3 == InsertField(m2, "Author", self.author)
        m4 == InsertField(m3, "Subject", self.subject)
        m5 == InsertField(m4, "Abstract", self.abstract_text)
        m6 == InsertField(m5, "CreationDate", self.creation_date)
        m7 == InsertField(m6, "ModDate", self.mod_date)
        m8 == InsertField(m7, "DocUsage", self.doc_usage)
        m9 == InsertField(m8, "Cover", self.cover)
        m10 == InsertField(m9, "Creator", self.creator)
        m11 == InsertField(m10, "CreatorVersion", self.creator_version)
    IN  Insert(m11, "Keywords",
               IF self.keywords.tag = "None" THEN ""
               ELSE Join(KeywordList_to_list(self.keywords.val), ","))

\* an entry without a name kept under the empty name
RECURSIVE FilterNamedOrDefault(_)
FilterNamedOrDefault(custom_data) ==
    IF custom_data = <<>> THEN <<>>
    ELSE LET data == custom_data[1] IN
         <<<<IF data.name.tag = "Some" THEN data.name.val ELSE "", data.value>>>>
             \o FilterNamedOrDefault(Tail(custom_data))

\* ".filter_map(|data| data.name.as_ref().map(|name| (name, value)))"
RECURSIVE FilterNamed(_)
FilterNamed(custom_data) ==
    IF custom_data = <<>> THEN <<>>
    ELSE LET data == custom_data[1] IN
         (IF data.name.tag = "Some" THEN <<<<data.name.val, data.value>>>> ELSE <<>>)
             \o FilterNamed(Tail(custom_data))

NotReversed(seq) == seq

\* ".rev()"
Rev(seq) == [i \in 1..Len(seq) |-> seq[Len(seq) + 1 - i]]

\* ".collect()" into a HashMap: the pairs are inserted in iteration order
RECURSIVE Collect(_, _)
Collect(pairs, map) ==
    IF pairs = <<>> THEN map
    ELSE Collect(Tail(pairs), Insert(map, pairs[1][1], pairs[1][2]))

CustomDataList_to_map(self) == Collect(Rev(FilterNamed(self.custom_data)), EmptyMap)

DocInfo_custom_datas(self) ==
    IF self.custom_datas.tag = "None" THEN EmptyMap
    ELSE CustomDataList_to_map(self.custom_datas.val)

(***************************************************************************)
(* ofd.rs: OfdDoc::open and its collaborators.  The text of an archive     *)
(* entry is modelled by what the XML decoder makes of it: a manifest (an   *)
(* OfdNode), a document root (a Document), text that is neither, or bytes  *)
(* that are no UTF-8 text.                                                 *)
(***************************************************************************)
OfdNode(doc_info, doc_root) == [doc_body |-> [doc_info |-> doc_info, doc_root |-> doc_root]]

ManifestText(node) == [kind |-> "manifest", node |-> node]
DocumentText == [kind |-> "document", doc |-> "Document"]
OtherText == [kind |-> "other"]
NotText == [kind |-> "binary"]
EmptyText == [kind |-> "empty"]

\* File::open(file_path) followed by ZipArchive::new(reader)
File_open(d) == IF d.file = "missing" THEN Err("IoError") ELSE Ok(d)
ZipArchive_new(d) == IF d.file = "zip" THEN Ok(d.entries) ELSE Err("ZipError")

by_name_or_empty(entries, name) ==
    IF name \in DOMAIN entries THEN Ok(entries[name]) ELSE Ok(EmptyText)

\* ZipArchive::by_name
by_name(entries, name) ==
    IF name \in DOMAIN entries THEN Ok(entries[name]) ELSE Err("ZipError")

\* Read::read_to_string
read_to_string(entry) == IF entry.kind = "binary" THEN Err("IoError") ELSE Ok(entry)

\* OfdNode::from_xml
OfdNode_from_xml(xml) ==
    IF xml.kind = "manifest" THEN Ok(xml.node) ELSE Err("SerdeXmlError")

Document_from_xml_or_default(xml) ==
    IF xml.kind = "document" THEN Ok(xml.doc) ELSE Ok("Default")

\* Document::from_xml
Document_from_xml(xml) ==
    IF xml.kind = "document" THEN Ok(xml.doc) ELSE Err("SerdeXmlError")

OfdDoc(node, zip_archive, doc, attributes, custom_datas) ==
    [node |-> node, zip_archive |-> zip_archive, document |-> doc,
     attributes |-> attributes, custom_datas |-> custom_datas]

\* let file = File::open(file_path).map_err(OfdError::IoError)?;
OpenFile ==
    /\ pc = "File::open"
    /\ log' = Append(log, "File::open")
    /\ LET r == File_open(disk) IN
         IF r.tag = "Err" THEN Return(r)
         ELSE pc' = "ZipArchive::new" /\ UNCHANGED ret
    /\ UNCHANGED <<call, arg, shape, parseVars, disk, zip, content, ofd_node, document>>

\* let mut zip = ZipArchive::new(reader).map_err(OfdError::ZipError)?;
\* let mut content = String::new();
NewZipArchive ==
    /\ pc = "ZipArchive::new"
    /\ log' = Append(log, "ZipArchive::new")
    /\ LET r == ZipArchive_new(disk) IN
         IF r.tag = "Err" THEN Return(r) /\ UNCHANGED zip
         ELSE zip' = Some(r.val) /\ pc' = "by_name(OFD.xml)" /\ UNCHANGED ret
    /\ UNCHANGED <<call, arg, shape, parseVars, disk, content, ofd_node, document>>

\* let mut ofd_file = zip.by_name("OFD.xml").map_err(OfdError::ZipError)?;
FindOfdXml ==
    /\ pc = "by_name(OFD.xml)"
    /\ log' = Append(log, "by_name(OFD.xml)")
    /\ LET r == by_name(zip.val, "OFD.xml") IN
         IF r.tag = "Err" THEN Return(r)
         ELSE pc' = "read(OFD.xml)" /\ UNCHANGED ret
    /\ UNCHANGED <<call, arg, shape, parseVars, disk, zip, content, ofd_node, document>>

\* ofd_file.read_to_string(&mut content).map_err(OfdError::IoError)?;
ReadOfdXml ==
    /\ pc = "read(OFD.xml)"
    /\ log' = Append(log, "read(OFD.xml)")
    /\ LET r == read_to_string(by_name(zip.val, "OFD.xml").val) IN
         IF r.tag = "Err" THEN Return(r) /\ UNCHANGED content
         ELSE content' = r.val /\ pc' = "OfdNode::from_xml" /\ UNCHANGED ret
    /\ UNCHANGED <<call, arg, shape, parseVars, disk, zip, ofd_node, document>>

\* let ofd_node = OfdNode::from_xml(&content).map_err(OfdError::SerdeXmlError)?;
\* content.clear();
ParseOfdNode ==
    /\ pc = "OfdNode::from_xml"
    /\ log' = Append(log, "OfdNode::from_xml")
    /\ LET r == OfdNode_from_xml(content) IN
         IF r.tag = "Err" THEN Return(r) /\ UNCHANGED <<ofd_node, content>>
         ELSE /\ ofd_node' = Some(r.val)
              /\ content' = EmptyText
              /\ pc' = "by_name(doc_root)"
              /\ UNCHANGED ret
    /\ UNCHANGED <<call, arg, shape, parseVars, disk, zip, document>>

\* let mut doc_file = zip.by_name(&ofd_node.doc_body.doc_root).map_err(OfdError::ZipError)?;
FindDocRoot ==
    /\ pc = "by_name(doc_root)"
    /\ log' = Append(log, "by_name(doc_root)")
    /\ LET r == by_name(zip.val, ofd_node.val.doc_body.doc_root) IN
         IF r.tag = "Err" THEN Return(r)
         ELSE pc' = "read(doc_root)" /\ UNCHANGED ret
    /\ UNCHANGED <<call, arg, shape, parseVars, disk, zip, content, ofd_node, document>>

\* doc_file.read_to_string(&mut content).map_err(OfdError::IoError)?;
ReadDocRoot ==
    /\ pc = "read(doc_root)"
    /\ log' = Append(log, "read(doc_root)")
    /\ LET r == read_to_string(by_name(zip.val, ofd_node.val.doc_body.doc_root).val) IN
         IF r.tag = "Err" THEN Return(r) /\ UNCHANGED content
         ELSE content' = r.val /\ pc' = "Document::from_xml" /\ UNCHANGED ret
    /\ UNCHANGED <<call, arg, shape, parseVars, disk, zip, ofd_node, document>>

\* let document = Document::from_xml(&content).map_err(OfdError::SerdeXmlError)?;
ParseDocument ==
    /\ pc = "Document::from_xml"
    /\ log' = Append(log, "Document::from_xml")
    /\ LET r == Document_from_xml(content) IN
         IF r.tag = "Err" THEN Return(r) /\ UNCHANGED document
         ELSE document' = Some(r.val) /\ pc' = "OfdDoc" /\ UNCHANGED ret
    /\ UNCHANGED <<call, arg, shape, parseVars, disk, zip, content, ofd_node>>

\* let attributes = ...attributes(); let custom_datas = ...custom_datas();
\* Ok(OfdDoc { node, zip_archive, document, attributes, custom_datas })
BuildOfdDoc ==
    /\ pc = "OfdDoc"
    /\ LET info == ofd_node.val.doc_body.doc_info IN
         Return(Ok(OfdDoc(ofd_node.val, zip.val, document.val,
                          DocInfo_attributes(info), DocInfo_custom_datas(info))))
    /\ UNCHANGED <<call, arg, shape, parseVars, disk, zip, content, ofd_node, document, log>>

(***************************************************************************)
(* Input strings: a sequence of tokens written out with some white space   *)
(* before, between and after them.                                         *)
(***************************************************************************)
SeqsUpTo(S, n) == UNION {[1..k -> S] : k \in 0..n}

WsStyles ==
    { [pre |-> "", sep |-> " ", post |-> ""],
      [pre |-> " ", sep |-> "\t ", post |-> "\n"] }

Render(toks, ws) == ws.pre \o Join(toks, ws.sep) \o ws.post

\* The numerals used in inputs, each with the number it writes.
NumeralValue ==
    [t \in {"0", "1", "2", "3", "4", "5", "6", "7", "10", "20", "-1", "-2",
            "-2.5", "2.7", "-0.5", "1e1", "inf"} |->
        CASE t = "0" -> Fin(0, 0)    [] t = "1" -> Fin(1, 0)
          [] t = "2" -> Fin(2, 0)    [] t = "3" -> Fin(3, 0)
          [] t = "4" -> Fin(4, 0)    [] t = "5" -> Fin(5, 0)
          [] t = "6" -> Fin(6, 0)    [] t = "7" -> Fin(7, 0)
          [] t = "10" -> Fin(1, 1)   [] t = "20" -> Fin(2, 1)
          [] t = "-1" -> Fin(0 - 1, 0) [] t = "-2" -> Fin(0 - 2, 0)
          [] t = "-2.5" -> Fin(0 - 25, 0 - 1)
          [] t = "2.7" -> Fin(27, 0 - 1)
          [] t = "-0.5" -> Fin(0 - 5, 0 - 1)
          [] t = "1e1" -> Fin(1, 1)
          [] t = "inf" -> Inf(1)]

IsNumeral(t) == t \in DOMAIN NumeralValue

PosVocab == {"10", "-2.5", "1e1", "inf", "x"}

Idle ==
    /\ pc = "idle"
    /\ call = "none"
    /\ arg = ""
    /\ shape = <<>>
    /\ ret = None
    /\ tokens = <<>>
    /\ cursor = 0
    /\ elements = <<>>
    /\ deltas = <<>>
    /\ disk = None
    /\ zip = None
    /\ content = ""
    /\ ofd_node = None
    /\ document = None
    /\ log = <<>>

OpenVarsUnchanged == UNCHANGED <<disk, zip, content, ofd_node, document, log>>

\* a call "s.parse::<STPos>()"
CallSTPos ==
    /\ pc = "idle"
    /\ \E toks \in SeqsUpTo(PosVocab, MaxPosTokens), ws \in WsStyles :
          /\ shape' = [tokens |-> toks, ws |-> ws]
          /\ arg' = Render(toks, ws)
          /\ ret' = STPos_from_str(Render(toks, ws))
    /\ call' = "STPos::from_str"
    /\ pc' = "returned"
    /\ UNCHANGED parseVars
    /\ OpenVarsUnchanged

\* a call "s.parse::<STBox>()"
CallSTBox ==
    /\ pc = "idle"
    /\ \E toks \in SeqsUpTo(PosVocab, MaxPosTokens), ws \in WsStyles :
          /\ shape' = [tokens |-> toks, ws |-> ws]
          /\ arg' = Render(toks, ws)
          /\ ret' = STBox_from_str(Render(toks, ws))
    /\ call' = "STBox::from_str"
    /\ pc' = "returned"
    /\ UNCHANGED parseVars
    /\ OpenVarsUnchanged

NextPos == CallSTPos \/ CallSTBox

SpecPos == Idle /\ [][NextPos]_vars

(***************************************************************************)
(* C6: STPos::from_str fails with InvalidFormat when the input does not    *)
(* have exactly 2 white-space separated tokens (the empty and the          *)
(* white-space-only input included, and whether or not the tokens are      *)
(* numerals); with exactly 2 tokens it fails with the float-parse error    *)
(* when one of them is no numeral, and otherwise returns x = the first     *)
(* number and y = the second.  STBox::from_str does the same with exactly  *)
(* 4 tokens, in the order x, y, w, h.                                      *)
(***************************************************************************)
C6_PosBoxParse ==
    pc = "returned" =>
        LET t == shape.tokens
            n == IF call = "STPos::from_str" THEN 2 ELSE 4
        IN  /\ Len(t) # n => ret = Err("InvalidFormat")
            /\ (Len(t) = n /\ \E i \in 1..n : ~IsNumeral(t[i]))
                   => ret = Err("ParseFloatError")
            /\ (Len(t) = n /\ \A i \in 1..n : IsNumeral(t[i]))
                   => /\ ret.tag = "Ok"
                      /\ ret.val.x = NumeralValue[t[1]]
                      /\ ret.val.y = NumeralValue[t[2]]
                      /\ call = "STBox::from_str"
                           => /\ ret.val.w = NumeralValue[t[3]]
                              /\ ret.val.h = NumeralValue[t[4]]

\* the box "10 -2.5 1e1 inf", written with blanks, tabs and a line end
C6_Witness ==
    /\ pc = "returned"
    /\ call = "STBox::from_str"
    /\ arg = " 10\t -2.5\t 1e1\t inf\n"
    /\ ret = Ok(STBox(Fin(1, 1), Fin(0 - 25, 0 - 1), Fin(1, 1), Inf(1)))

(***************************************************************************)
(* Path inputs: up to MaxGroups chunks, each an opcode token followed by   *)
(* operand tokens.                                                         *)
(***************************************************************************)
OpArity == [o \in {"S", "M", "L", "Q", "B", "A", "C"} |->
              CASE o \in {"S", "M", "L"} -> 2 [] o = "Q" -> 4 [] o = "B" -> 6
                [] o = "A" -> 7 [] o = "C" -> 0]

OperandsA == <<"1", "2", "3", "4", "5", "6", "7">>
OperandsB == <<"0", "10", "-2.5", "20", "1e1", "2.7", "-1">>

Chunk(o, args) == [op |-> o, args |-> args]

ReplaceAt(seq, j, t) == [k \in 1..Len(seq) |-> IF k = j THEN t ELSE seq[k]]

PathChunks ==
    \* complete groups
    {Chunk(o, SubSeq(OperandsA, 1, OpArity[o])) : o \in DOMAIN OpArity}
    \cup {Chunk(o, SubSeq(OperandsB, 1, OpArity[o])) : o \in {"Q", "A"}}
    \* groups short of operands
    \cup {Chunk(o, SubSeq(OperandsA, 1, k)) :
            o \in DOMAIN OpArity \ {"C"}, k \in {0, 1, 3, 6}}
    \* groups short of operands, the first of them no numeral
    \cup {Chunk(o, ReplaceAt(SubSeq(OperandsA, 1, k), 1, "x")) :
            o \in DOMAIN OpArity \ {"C"}, k \in {1, 3}}
    \* complete groups with an operand that is no numeral
    \cup {Chunk(o, ReplaceAt(SubSeq(OperandsA, 1, OpArity[o]), 1, "x")) :
            o \in DOMAIN OpArity \ {"C"}}
    \cup {Chunk(o, ReplaceAt(SubSeq(OperandsA, 1, OpArity[o]), OpArity[o], "1.2.3")) :
            o \in {"L", "B"}}
    \* tokens that are no opcode
    \cup {Chunk(o, <<>>) : o \in {"Z", "s", "1"}}

PathChunkSet == {c \in PathChunks : c.op \in DOMAIN OpArity => Len(c.args) <= OpArity[c.op]}

RECURSIVE ChunkTokens(_)
ChunkTokens(chunks) ==
    IF chunks = <<>> THEN <<>>
    ELSE <<chunks[1].op>> \o chunks[1].args \o ChunkTokens(Tail(chunks))

\* a call "s.parse::<STPath>()", up to the loop:
\* let mut elements = Vec::new(); let parts = s.split_whitespace().collect();
CallSTPath ==
    /\ pc = "idle"
    /\ \E chunks \in SeqsUpTo(PathChunkSet, MaxGroups), ws \in WsStyles :
          /\ shape' = [chunks |-> chunks, ws |-> ws]
          /\ \E s \in {Render(ChunkTokens(chunks), ws)} :
                /\ arg' = s
                /\ tokens' = split_whitespace(s)
    /\ cursor' = 0
    /\ elements' = <<>>
    /\ call' = "STPath::from_str"
    /\ pc' = "STPath::loop"
    /\ UNCHANGED <<ret, deltas>>
    /\ OpenVarsUnchanged

NextPath ==
    \/ CallSTPath
    \/ PathArmS
    \/ PathArmM
    \/ PathArmL
    \/ PathArmQ
    \/ PathArmB
    \/ PathArmA
    \/ PathArmC
    \/ PathArmOther
    \/ PathDone

SpecPath == Idle /\ [][NextPath]_vars

IsOpcode(c) == c.op \in DOMAIN OpArity
IsComplete(c) == IsOpcode(c) /\ Len(c.args) = OpArity[c.op]
IsWellFormed(c) == IsComplete(c) /\ \A j \in 1..Len(c.args) : IsNumeral(c.args[j])
IsShort(c) == IsOpcode(c) /\ Len(c.args) < OpArity[c.op]

\* the path operation a well-formed group stands for
OperationOf(c) ==
    LET n(j) == NumeralValue[c.args[j]]
        P(j) == [x |-> n(j), y |-> n(j + 1)]
    IN  CASE c.op = "S" -> [op |-> "StartAt", pos |-> P(1)]
          [] c.op = "M" -> [op |-> "MoveTo", pos |-> P(1)]
          [] c.op = "L" -> [op |-> "LineTo", pos |-> P(1)]
          [] c.op = "Q" -> [op |-> "QuadraticBezierCurve", pos1 |-> P(1), pos2 |-> P(3)]
          [] c.op = "B" -> [op |-> "CubicBezierCurve", pos1 |-> P(1), pos2 |-> P(3),
                            pos3 |-> P(5)]
          [] c.op = "A" -> [op |-> "EllipseArc", rx |-> n(1), ry |-> n(2),
                            angle |-> n(3), large |-> n(4), sweep |-> n(5),
                            pos |-> P(6)]
          [] c.op = "C" -> [op |-> "ClosePath"]

(***************************************************************************)
(* C7: on a token stream made of groups, each an opcode of S, M, L, Q, B,  *)
(* A, C followed by exactly its 2, 2, 2, 4, 6, 7, 0 numeric operands,      *)
(* STPath::from_str succeeds and returns one path operation per group, in  *)
(* input order, of the opcode's variant and with the operands in input     *)
(* order; the empty input gives the empty path, and a draw operation       *)
(* before any S or M is accepted.                                          *)
(***************************************************************************)
C7_PathGroups ==
    (pc = "returned" /\ call = "STPath::from_str") =>
        LET cs == shape.chunks IN
        (\A i \in 1..Len(cs) : IsWellFormed(cs[i]))
            => /\ ret.tag = "Ok"
               /\ Len(ret.val.elements) = Len(cs)
               /\ \A i \in 1..Len(cs) : ret.val.elements[i] = OperationOf(cs[i])

\* "Q 1 2 3 4 C": a curve drawn before any S or M, then the path closed
C7_Witness ==
    /\ pc = "returned"
    /\ call = "STPath::from_str"
    /\ arg = "Q 1 2 3 4 C"
    /\ ret = Ok([elements |->
             <<[op |-> "QuadraticBezierCurve",
                pos1 |-> [x |-> Fin(1, 0), y |-> Fin(2, 0)],
                pos2 |-> [x |-> Fin(3, 0), y |-> Fin(4, 0)]],
               [op |-> "ClosePath"]>>])

(***************************************************************************)
(* C8: STPath::from_str never truncates.  When the groups before it are    *)
(* well formed and a token in opcode position is none of S, M, L, Q, B, A, *)
(* C, or the stream ends before an opcode has all its operands (whatever   *)
(* the operands that are there), the result is InvalidFormat and no path   *)
(* is returned.                                                            *)
(***************************************************************************)
C8_PathNeverTruncates ==
    (pc = "returned" /\ call = "STPath::from_str") =>
        LET cs == shape.chunks IN
        (\E p \in 1..Len(cs) :
            /\ \A i \in 1..(p - 1) : IsWellFormed(cs[i])
            /\ \/ ~IsOpcode(cs[p])
               \/ IsShort(cs[p]) /\ p = Len(cs))
            => ret = Err("InvalidFormat")

\* "S 1 2 Q x 2 3": a well-formed S, then a Q one operand short, with an
\* operand that is no numeral
C8_Witness ==
    /\ pc = "returned"
    /\ call = "STPath::from_str"
    /\ arg = "S 1 2 Q x 2 3"
    /\ elements = <<StartAt(STPos(Fin(1, 0), Fin(2, 0)))>>
    /\ ret = Err("InvalidFormat")

(***************************************************************************)
(* Delta inputs: up to MaxItems items, each a literal token or a "g"       *)
(* marker followed by operand tokens.                                      *)
(***************************************************************************)
Item(toks) == [toks |-> toks]

CountTokens == {"3", "0", "-2", "2.7", "-0.5", "x"}
DeltaTokens == {"5", "-2.5", "x"}

DeltaItemSet ==
    {Item(<<t>>) : t \in {"2", "-2.5", "1e1", "x"}}
    \cup {Item(<<"g", c, d>>) : c \in CountTokens, d \in DeltaTokens}
    \cup {Item(<<"g", c>>) : c \in {"3", "x"}}
    \cup {Item(<<"g">>)}

RECURSIVE ItemTokens(_)
ItemTokens(items) ==
    IF items = <<>> THEN <<>> ELSE items[1].toks \o ItemTokens(Tail(items))

\* a call "s.parse::<STDeltas>()", up to the loop:
\* let parts = s.split_whitespace().collect(); let mut deltas = Vec::new();
CallSTDeltas ==
    /\ pc = "idle"
    /\ \E items \in SeqsUpTo(DeltaItemSet, MaxItems), ws \in WsStyles :
          /\ shape' = [items |-> items, ws |-> ws]
          /\ \E s \in {Render(ItemTokens(items), ws)} :
                /\ arg' = s
                /\ tokens' = split_whitespace(s)
    /\ cursor' = 0
    /\ deltas' = <<>>
    /\ call' = "STDeltas::from_str"
    /\ pc' = "STDeltas::loop"
    /\ UNCHANGED <<ret, elements>>
    /\ OpenVarsUnchanged

NextDeltas ==
    \/ CallSTDeltas
    \/ DeltasArmG
    \/ DeltasArmOther
    \/ DeltasDone

SpecDeltas == Idle /\ [][NextDeltas]_vars

IsGroup(it) == it.toks[1] = "g"
IsWellFormedItem(it) ==
    /\ IsGroup(it) => Len(it.toks) = 3
    /\ \A j \in 1..Len(it.toks) : (j > 1 \/ ~IsGroup(it)) => IsNumeral(it.toks[j])

\* the count tokens that are numerals, each with the number of copies its
\* truncation toward zero asks for
Copies ==
    [c \in {"3", "0", "-2", "2.7", "-0.5"} |->
        CASE c = "3" -> 3 [] c = "0" -> 0 [] c = "-2" -> 0 [] c = "2.7" -> 2
          [] c = "-0.5" -> 0]

Expansion(it) ==
    IF IsGroup(it) THEN [j \in 1..Copies[it.toks[2]] |-> NumeralValue[it.toks[3]]]
    ELSE <<NumeralValue[it.toks[1]]>>

RECURSIVE Expansions(_)
Expansions(items) ==
    IF items = <<>> THEN <<>> ELSE Expansion(items[1]) \o Expansions(Tail(items))

ReachesGroup(items, p) ==
    /\ IsGroup(items[p])
    /\ \A i \in 1..(p - 1) : IsWellFormedItem(items[i])

(***************************************************************************)
(* C10 as claimed: whenever a "g" marker is followed by fewer than two     *)
(* further tokens the result is InvalidFormat, whatever the tokens that    *)
(* are there, and the float-parse error is returned only when count and    *)
(* delta are both there and one of them is no numeral.                     *)
(***************************************************************************)
C10_AsClaimed ==
    (pc = "returned" /\ call = "STDeltas::from_str") =>
        LET items == shape.items
            n == Len(items)
        IN  \A p \in 1..n :
              ReachesGroup(items, p) =>
                /\ (p = n /\ Len(items[p].toks) < 3) => ret = Err("InvalidFormat")
                /\ (p = n /\ ret = Err("ParseFloatError")) => Len(items[p].toks) = 3

(***************************************************************************)
(* C10 amended: when a "g" marker is followed by no further token, or by   *)
(* exactly one token that is a numeral, the result is InvalidFormat; when  *)
(* it is followed by exactly one token that is no numeral the result is    *)
(* the float-parse error (count is parsed before delta is taken); with     *)
(* both tokens there the float-parse error is returned exactly when one    *)
(* of them is no numeral.                                                  *)
(***************************************************************************)
C10_GroupErrors ==
    (pc = "returned" /\ call = "STDeltas::from_str") =>
        LET items == shape.items
            n == Len(items)
        IN  \A p \in 1..n :
              ReachesGroup(items, p) =>
                LET t == items[p].toks IN
                /\ (p = n /\ Len(t) = 1) => ret = Err("InvalidFormat")
                /\ (p = n /\ Len(t) = 2 /\ IsNumeral(t[2])) => ret = Err("InvalidFormat")
                /\ (p = n /\ Len(t) = 2 /\ ~IsNumeral(t[2])) => ret = Err("ParseFloatError")
                /\ (Len(t) = 3 /\ (~IsNumeral(t[2]) \/ ~IsNumeral(t[3])))
                      => ret = Err("ParseFloatError")
                /\ (p = n /\ Len(t) = 3 /\ IsNumeral(t[2]) /\ IsNumeral(t[3]))
                      => ret.tag = "Ok"

\* "2 g x": the marker is followed by the single token x, and the result
\* is the float-parse error
C10_Witness ==
    /\ pc = "returned"
    /\ call = "STDeltas::from_str"
    /\ arg = "2 g x"
    /\ ret = Err("ParseFloatError")

(***************************************************************************)
(* Metadata inputs: decoded DocInfo values.                                *)
(***************************************************************************)
KeywordValues == {"a", "bc", ""}

ScalarDocInfos ==
    [doc_id : {"", "id-1"}, title : {"", "T"}, author : {"", "A"},
     subject : {"", "S"}, abstract_text : {"", "abs"},
     creation_date : {"", "2024-01-01"}, mod_date : {"", "2024-02-02"},
     doc_usage : {"", "Normal"}, cover : {"", "c.png"},
     keywords : {None} \cup {Some(KeywordList([i \in DOMAIN vs |-> Keyword(vs[i])])) :
                               vs \in SeqsUpTo(KeywordValues, MaxKeywords)},
     creator : {"", "ofd"}, creator_version : {"", "1.0"},
     custom_datas : {None}]

CustomDataEntries ==
    {CustomData(n, v) : n \in {None, Some("k"), Some("j"), Some("")},
                        v \in {"first", "second"}}

CustomDocInfos ==
    {[DefaultDocInfo EXCEPT !.custom_datas = c] :
        c \in {None} \cup {Some(CustomDataList(es)) :
                             es \in SeqsUpTo(CustomDataEntries, MaxCustom)}}

\* a call "doc_info.attributes()"
CallAttributes ==
    /\ pc = "idle"
    /\ \E info \in ScalarDocInfos :
          /\ arg' = info
          /\ ret' = DocInfo_attributes(info)
    /\ call' = "DocInfo::attributes"
    /\ pc' = "returned"
    /\ UNCHANGED <<shape, parseVars>>
    /\ OpenVarsUnchanged

\* a call "doc_info.custom_datas()"
CallCustomDatas ==
    /\ pc = "idle"
    /\ \E info \in CustomDocInfos :
          /\ arg' = info
          /\ ret' = DocInfo_custom_datas(info)
    /\ call' = "DocInfo::custom_datas"
    /\ pc' = "returned"
    /\ UNCHANGED <<shape, parseVars>>
    /\ OpenVarsUnchanged

NextMeta == CallAttributes \/ CallCustomDatas

SpecMeta == Idle /\ [][NextMeta]_vars

ScalarFields ==
    { <<"DocId", "doc_id">>, <<"Title", "title">>, <<"Author", "author">>,
      <<"Subject", "subject">>, <<"Abstract", "abstract_text">>,
      <<"CreationDate", "creation_date">>, <<"ModDate", "mod_date">>,
      <<"DocUsage", "doc_usage">>, <<"Cover", "cover">>, <<"Creator", "creator">>,
      <<"CreatorVersion", "creator_version">> }

(***************************************************************************)
(* C2 as claimed: the attributes map has the key of a plain scalar field   *)
(* only if that field's source value is present and non-empty.             *)
(***************************************************************************)
C2_AsClaimed ==
    (pc = "returned" /\ call = "DocInfo::attributes") =>
        \A f \in ScalarFields : f[1] \in DOMAIN ret => arg[f[2]] # ""

(***************************************************************************)
(* C2 amended: the attributes map has the key of every plain scalar field, *)
(* whatever its source value, and maps it to that value; a field whose     *)
(* source value is empty or absent is mapped to the empty string.          *)
(***************************************************************************)
C2_AllScalarKeys ==
    (pc = "returned" /\ call = "DocInfo::attributes") =>
        \A f \in ScalarFields : f[1] \in DOMAIN ret /\ ret[f[1]] = arg[f[2]]

\* a DocInfo with a title and no author: both keys are in the map
C2_Witness ==
    /\ pc = "returned"
    /\ call = "DocInfo::attributes"
    /\ arg.title = "T"
    /\ arg.author = ""
    /\ ret["Title"] = "T"
    /\ ret["Author"] = ""

\* the length of the keyword values before the i-th, each with its comma
RECURSIVE OffsetOf(_, _)
OffsetOf(kw, i) == IF i = 1 THEN 0 ELSE OffsetOf(kw, i - 1) + Len(kw[i - 1].value) + 1

(***************************************************************************)
(* C3: whenever the keyword list is present in the document info, the      *)
(* attributes map has the key Keywords, and its value is the keyword       *)
(* values in declared order with a comma between neighbours (the empty     *)
(* string for an empty list).                                              *)
(***************************************************************************)
C3_KeywordsJoined ==
    (pc = "returned" /\ call = "DocInfo::attributes" /\ arg.keywords.tag = "Some") =>
        LET kw == arg.keywords.val.keyword
            n == Len(kw)
        IN  /\ "Keywords" \in DOMAIN ret
            /\ LET r == ret["Keywords"] IN
               /\ Len(r) = IF n = 0 THEN 0 ELSE OffsetOf(kw, n) + Len(kw[n].value)
               /\ \A i \in 1..n :
                    LET o == OffsetOf(kw, i) IN
                    /\ SubSeq(r, o + 1, o + Len(kw[i].value)) = kw[i].value
                    /\ i > 1 => SubSeq(r, o, o) = ","

C3_Witness ==
    /\ pc = "returned"
    /\ call = "DocInfo::attributes"
    /\ arg.keywords = Some([keyword |-> <<[value |-> "a"], [value |-> "bc"]>>])
    /\ ret["Keywords"] = "a,bc"

(***************************************************************************)
(* Inputs of OfdDoc::open: what is found at file_path.                     *)
(***************************************************************************)
EntryNames == {"OFD.xml", "Doc_0/Document.xml"}
DocRoots == {"Doc_0/Document.xml", "Doc_1/Document.xml", "OFD.xml"}

OpenDocInfos ==
    { DefaultDocInfo,
      [DefaultDocInfo EXCEPT
         !.title = "T",
         !.keywords = Some(KeywordList(<<Keyword("a"), Keyword("bc")>>)),
         !.custom_datas = Some(CustomDataList(
              <<CustomData(Some("k"), "first"), CustomData(None, "anonymous"),
                CustomData(Some("k"), "second")>>))] }

EntryTexts ==
    {ManifestText(OfdNode(i, r)) : i \in OpenDocInfos, r \in DocRoots}
    \cup {DocumentText, OtherText, NotText}

Archives == UNION {[names -> EntryTexts] : names \in SUBSET EntryNames}

Disks ==
    { [file |-> "missing", entries |-> EmptyMap], [file |-> "notzip", entries |-> EmptyMap] }
    \cup {[file |-> "zip", entries |-> a] : a \in Archives}

\* a call "OfdDoc::open(file_path)"
CallOpen ==
    /\ pc = "idle"
    /\ \E d \in Disks : disk' = d
    /\ call' = "OfdDoc::open"
    /\ pc' = "File::open"
    /\ UNCHANGED <<arg, shape, ret, parseVars, zip, content, ofd_node, document, log>>

NextOpen ==
    \/ CallOpen
    \/ OpenFile
    \/ NewZipArchive
    \/ FindOfdXml
    \/ ReadOfdXml
    \/ ParseOfdNode
    \/ FindDocRoot
    \/ ReadDocRoot
    \/ ParseDocument
    \/ BuildOfdDoc

SpecOpen == Idle /\ [][NextOpen]_vars

Logged(step) == \E i \in 1..Len(log) : log[i] = step

HasArchive == call = "OfdDoc::open" /\ disk.file = "zip"
HasManifest ==
    /\ HasArchive
    /\ "OFD.xml" \in DOMAIN disk.entries
    /\ disk.entries["OFD.xml"].kind = "manifest"
DocRootName == disk.entries["OFD.xml"].node.doc_body.doc_root

(***************************************************************************)
(* C4: when the archive has no entry named OFD.xml, OfdDoc::open fails     *)
(* with the archive error ZipError, and in that run the manifest is never  *)
(* decoded and the document root is never looked up, read or decoded.      *)
(***************************************************************************)
C4_NoManifestNoDocRoot ==
    (HasArchive /\ "OFD.xml" \notin DOMAIN disk.entries) =>
        /\ ~Logged("read(OFD.xml)")
        /\ ~Logged("OfdNode::from_xml")
        /\ ~Logged("by_name(doc_root)")
        /\ ~Logged("read(doc_root)")
        /\ ~Logged("Document::from_xml")
        /\ ofd_node = None /\ document = None
        /\ pc \in {"File::open", "ZipArchive::new", "by_name(OFD.xml)", "returned"}
        /\ pc = "returned" => ret = Err("ZipError")

\* an archive that holds a document root and no OFD.xml: open has returned
\* after looking OFD.xml up
C4_Witness ==
    /\ HasArchive
    /\ DOMAIN disk.entries = {"Doc_0/Document.xml"}
    /\ pc = "returned"
    /\ ret = Err("ZipError")
    /\ log = <<"File::open", "ZipArchive::new", "by_name(OFD.xml)">>

FullChain ==
    <<"File::open", "ZipArchive::new", "by_name(OFD.xml)", "read(OFD.xml)",
      "OfdNode::from_xml", "by_name(doc_root)", "read(doc_root)",
      "Document::from_xml">>

(***************************************************************************)
(* C5: OfdDoc::open is all-or-nothing.  It returns a document only if      *)
(* every step of the chain succeeded, in the order open archive, read      *)
(* OFD.xml, decode manifest, read the entry named by doc_root, decode      *)
(* document root.  When the manifest decodes and the doc_root entry is     *)
(* missing, open returns the archive error ZipError; when that entry does  *)
(* not decode, open returns an error; in both cases no document, no        *)
(* attributes and no custom_datas are produced.                            *)
(***************************************************************************)
C5_AllOrNothing ==
    (call = "OfdDoc::open" /\ pc = "returned") =>
        /\ ret.tag \in {"Ok", "Err"}
        /\ ret.tag = "Ok" =>
             /\ log = FullChain
             /\ HasManifest
             /\ DocRootName \in DOMAIN disk.entries
             /\ disk.entries[DocRootName].kind = "document"
             /\ ret.val.node = disk.entries["OFD.xml"].node
             /\ ret.val.document = disk.entries[DocRootName].doc
        /\ (HasManifest /\ DocRootName \notin DOMAIN disk.entries) =>
             /\ Logged("OfdNode::from_xml") /\ ofd_node # None
             /\ ret = Err("ZipError")
             /\ document = None
        /\ (HasManifest /\ DocRootName \in DOMAIN disk.entries
               /\ disk.entries[DocRootName].kind # "document") =>
             /\ Logged("OfdNode::from_xml") /\ ofd_node # None
             /\ ret.tag = "Err"
             /\ document = None

\* the manifest decodes and names Doc_1/Document.xml, which the archive
\* does not hold
C5_Witness ==
    /\ HasManifest
    /\ DocRootName = "Doc_1/Document.xml"
    /\ pc = "returned"
    /\ ret = Err("ZipError")
    /\ log = SubSeq(FullChain, 1, 6)

\* a complete archive is opened
C5_WitnessOk ==
    /\ call = "OfdDoc::open"
    /\ pc = "returned"
    /\ ret.tag = "Ok"
    /\ ret.val.custom_datas = [x \in {"k"} |-> "first"]

(***************************************************************************)
(* C11: for every list of custom-data entries, the entries without a name  *)
(* are dropped and no error is raised: custom_datas returns a map whose    *)
(* key set is exactly the set of the names of the named entries; an absent *)
(* custom-data list gives the empty map.                                   *)
(***************************************************************************)
NamesOf(es) == {es[i].name.val : i \in {j \in 1..Len(es) : es[j].name.tag = "Some"}}

C11_KeysAreNames ==
    (pc = "returned" /\ call = "DocInfo::custom_datas") =>
        /\ ret \in [DOMAIN ret -> {"first", "second"}]
        /\ IF arg.custom_datas.tag = "None"
           THEN ret = EmptyMap
           ELSE DOMAIN ret = NamesOf(arg.custom_datas.val.custom_data)

\* an unnamed entry, a named one, and an unnamed one again: only "j" is a key
C11_Witness ==
    /\ pc = "returned"
    /\ call = "DocInfo::custom_datas"
    /\ arg.custom_datas = Some([custom_data |->
            <<[name |-> None, value |-> "first"],
              [name |-> Some("j"), value |-> "second"],
              [name |-> None, value |-> "second"]>>])
    /\ DOMAIN ret = {"j"}
    /\ ret["j"] = "second"

====
